---- MODULE Spec2Model ----
(***************************************************************************)
(* Model of utils/neo4j_loader.py: load_graph_to_neo4j and the Neo4jLoader *)
(* class it drives (connect, close, clear_graph, load_graph_from_json and  *)
(* the two ingesters), against a property-graph database.                  *)
(*                                                                         *)
(* The database is a set of stored nodes and a set of stored relationships.*)
(* Every session.run of the loader is one auto-commit transaction, and is  *)
(* one step of the model: it either raises and changes nothing, or applies *)
(* the whole Cypher statement.                                             *)
(***************************************************************************)
EXTENDS Integers, Sequences, FiniteSets, TLC

\* ------------------------------------------------------------------ bounds
\* Calls of load_graph_to_neo4j the caller makes, one after the other.
MaxLoads == 2
\* Database statements (clear or record write) that raise, in one run.
MaxFaults == 1

\* Methods of one Neo4jLoader object its user calls, one after the other.
MaxApiCalls == 3

\* ------------------------------------------------------------ value space
Loaders == {1, 2}
Datasets == {"A", "B"}

\* A key that a JSON object / a stored entity does not carry.
Absent == "<absent>"

\* dict.get(key, default)
Get(v, default) == IF v = Absent THEN default ELSE v

\* Python truthiness of a value read with .get(key, ""): `not v`
Falsy(v) == v = "" \/ v = Absent

\* ------------------------------------------------------------ input files
\* The "properties" mapping of an endpoint descriptor; the keys the model
\* follows are name, schema_type, type and dataset.
Props(name, schema_type, type, dataset) ==
    [name |-> name, schema_type |-> schema_type, type |-> type, dataset |-> dataset]

Endpoint(label, props) == [label |-> label, properties |-> props]

RelRec(s, e, relation) == [start_node |-> s, end_node |-> e, relation |-> relation]

NodeRec(id, name, type, attributes) ==
    [id |-> id, name |-> name, type |-> type, attributes |-> attributes]

EdgeRec(source, target, relation, weight) ==
    [source |-> source, target |-> target, relation |-> relation, weight |-> weight]

\* A file on disk: whether it exists, whether it decodes as JSON, and the
\* decoded value: a list (items), a mapping (hasNodes, nodes, edges) or
\* something else.
File(exists, valid, shape, hasNodes, items, nodes, edges) ==
    [exists |-> exists, valid |-> valid, shape |-> shape, hasNodes |-> hasNodes,
     items |-> items, nodes |-> nodes, edges |-> edges]

ListFile(items) == File(TRUE, TRUE, "list", FALSE, items, <<>>, <<>>)
DictFile(nodes, edges) == File(TRUE, TRUE, "dict", TRUE, <<>>, nodes, edges)

FMissing == File(FALSE, FALSE, "none", FALSE, <<>>, <<>>, <<>>)
FMalformed == File(TRUE, FALSE, "none", FALSE, <<>>, <<>>, <<>>)
\* top-level 42
FScalar == File(TRUE, TRUE, "scalar", FALSE, <<>>, <<>>, <<>>)
\* a mapping without a "nodes" key
FNoNodes == File(TRUE, TRUE, "dict", FALSE, <<>>, <<>>, <<>>)

EpX == Endpoint("entity", Props("x", "person", Absent, Absent))
EpY == Endpoint("entity", Props("y", Absent, Absent, Absent))
EpZ == Endpoint(Absent, Props("z", Absent, Absent, Absent))
EpEmpty == Endpoint("entity", Props("", "person", Absent, Absent))
EpNoName == Endpoint("entity", Props(Absent, Absent, Absent, Absent))
\* an endpoint whose property map carries a "dataset" key
EpXTagA == Endpoint("entity", Props("x", Absent, Absent, "A"))

\* an endpoint whose property map carries a "type" key
EpW == Endpoint("entity", Props("w", "person", "robot", Absent))

\* the relationship-list scenario of the documentation
FRel1 == ListFile(<<RelRec(EpX, EpY, "located_in")>>)
\* a repeated record, a record with an empty name, one without a name
FRel2 == ListFile(<<RelRec(EpX, EpEmpty, "knows"), RelRec(EpX, EpY, "knows"),
                    RelRec(EpNoName, EpY, Absent), RelRec(EpX, EpY, "knows")>>)
FRel3 == ListFile(<<RelRec(EpXTagA, EpY, "knows"), RelRec(EpY, EpZ, Absent)>>)
FRel4 == ListFile(<<RelRec(EpW, EpY, "knows")>>)

N1 == NodeRec("1", "Alice", "person", Absent)
N2 == NodeRec("2", "Bob", "person", "[a]")
N1a == NodeRec("1", "Alice", Absent, Absent)
N1b == NodeRec("1", Absent, Absent, Absent)
NEmpty == NodeRec("", "Nobody", Absent, Absent)
NNoId == NodeRec(Absent, "Nobody", Absent, Absent)

\* the standard scenarios of the documentation
FStd1 == DictFile(<<N1, N2>>, <<EdgeRec("1", "2", "knows", "2.0")>>)
FStd2 == DictFile(<<N1a>>, <<EdgeRec("1", "99", "knows", Absent)>>)
\* records with an empty or absent id, source or target among good ones
\* an id written twice, an edge written twice with two weights
N1x == NodeRec("1", "x", "robot", "[b]")
FStd4 == DictFile(<<N1, N1x>>,
                  <<EdgeRec("1", "1", "knows", "2.0"), EdgeRec("1", "1", "knows", "3.0")>>)
FStd3 == DictFile(<<NEmpty, N2, NNoId, N1b>>,
                  <<EdgeRec("", "2", "knows", Absent), EdgeRec("2", Absent, "knows", Absent),
                    EdgeRec("2", "1", Absent, Absent)>>)

Files == {FMissing, FMalformed, FScalar, FNoNodes, FRel1, FRel2, FRel3, FRel4,
          FStd1, FStd2, FStd3, FStd4}

\* --------------------------------------------------------------- database
\* A stored node: nid is the database's own identity of the node; the rest
\* are its properties (all nodes carry the label Entity).
StoredNode(nid, id, name, dataset, type, schema_type, attributes) ==
    [nid |-> nid, id |-> id, name |-> name, dataset |-> dataset, type |-> type,
     schema_type |-> schema_type, attributes |-> attributes]

\* A stored relationship of label RELATES between two stored nodes.
StoredRel(src, dst, type, dataset, weight) ==
    [src |-> src, dst |-> dst, type |-> type, dataset |-> dataset, weight |-> weight]

Nids(ns) == {n.nid : n \in ns}

\* the identity the database gives a node it creates
FreshNid(ns) ==
    CHOOSE i \in 1..(Cardinality(ns) + 1) :
        i \notin Nids(ns) /\ \A j \in 1..(i - 1) : j \in Nids(ns)

\* Cypher `n += $props`: every key of the map is written onto the node.
PlusEq(n, props) ==
    [n EXCEPT !.name = Get(props.name, @),
              !.schema_type = Get(props.schema_type, @),
              !.type = Get(props.type, @),
              !.dataset = Get(props.dataset, @)]

\* ------------------------------------------------------ Cypher statements
\* MERGE (a:Entity {name: $name, dataset: $dataset})
\*   ON CREATE SET a.type = $type, a += $props   ON MATCH SET a += $props
\* The nodes after the clause and the identities bound to the variable.
MergeEntityByName(ns, name, ds, type, props) ==
    LET M == {n \in ns : n.name = name /\ n.dataset = ds}
        created == PlusEq(StoredNode(FreshNid(ns), Absent, name, ds, type, Absent, Absent),
                          props)
    IN  IF M = {}
        THEN [nodes |-> ns \cup {created}, bound |-> {created.nid}]
        ELSE [nodes |-> (ns \ M) \cup {PlusEq(n, props) : n \in M}, bound |-> Nids(M)]

\* MERGE (a)-[r:RELATES {type: $relation, dataset: $dataset}]->(b), for
\* every bound pair: an existing relationship is matched, else one is made.
MergeRelates(rs, as, bs, relation, ds) ==
    rs \cup {StoredRel(pr[1], pr[2], relation, ds, Absent) :
                pr \in {q \in as \X bs :
                          ~\E r \in rs : /\ r.src = q[1] /\ r.dst = q[2]
                                         /\ r.type = relation /\ r.dataset = ds}}

\* The statement of the relationship-list ingester; rows is what it RETURNs.
RelationshipStatement(ns, rs, start_name, end_name, ds, start_type, end_type, start_props, end_props, relation) ==
    LET ma == MergeEntityByName(ns, start_name, ds, start_type, start_props)
        mb == MergeEntityByName(ma.nodes, end_name, ds, end_type, end_props)
    IN  [nodes |-> mb.nodes,
         rels |-> MergeRelates(rs, ma.bound, mb.bound, relation, ds),
         rows |-> ma.bound \X mb.bound]

\* MERGE (n:Entity {id: $id, dataset: $dataset})
\* SET n.name = $name, n.type = $type, n.attributes = $attributes
NodeStatement(ns, id, name, type, attributes, ds) ==
    LET M == {n \in ns : n.id = id /\ n.dataset = ds}
        N == IF M = {}
             THEN {StoredNode(FreshNid(ns), id, Absent, ds, Absent, Absent, Absent)}
             ELSE M
    IN  (ns \ M) \cup {[n EXCEPT !.name = name, !.type = type, !.attributes = attributes] :
                          n \in N}

\* MATCH (a:Entity {id: $source, dataset: $dataset})
MatchById(ns, id, ds) == {n.nid : n \in {m \in ns : m.id = id /\ m.dataset = ds}}

\* EdgeStatement with its two MATCH clauses written as MERGE: a missing
\* endpoint is created.
EdgeStatementMerging(ns, rs, source, target, relation, weight, ds) ==
    LET na == IF MatchById(ns, source, ds) = {}
              THEN ns \cup {StoredNode(FreshNid(ns), source, Absent, ds, Absent, Absent,
                                       Absent)}
              ELSE ns
        nb == IF MatchById(na, target, ds) = {}
              THEN na \cup {StoredNode(FreshNid(na), target, Absent, ds, Absent, Absent,
                                       Absent)}
              ELSE na
        as == MatchById(nb, source, ds)
        bs == MatchById(nb, target, ds)
        hit(r) == /\ r.src \in as /\ r.dst \in bs
                  /\ r.type = relation /\ r.dataset = ds
    IN  [nodes |-> nb,
         rels |-> {IF hit(r) THEN [r EXCEPT !.weight = weight] ELSE r :
                      r \in MergeRelates(rs, as, bs, relation, ds)}]

\* MATCH (a ...) MATCH (b ...)
\* MERGE (a)-[r:RELATES {type: $relation, dataset: $dataset}]->(b)
\* SET r.weight = $weight
EdgeStatement(ns, rs, source, target, relation, weight, ds) ==
    LET as == MatchById(ns, source, ds)
        bs == MatchById(ns, target, ds)
        hit(r) == /\ r.src \in as /\ r.dst \in bs
                  /\ r.type = relation /\ r.dataset = ds
    IN  [nodes |-> ns,
         rels |-> {IF hit(r) THEN [r EXCEPT !.weight = weight] ELSE r :
                      r \in MergeRelates(rs, as, bs, relation, ds)}]

\* MATCH (n {dataset: $dataset}) DETACH DELETE n
ClearNodes(ns, ds) == {n \in ns : n.dataset # ds}
ClearRels(ns, rs, ds) ==
    {r \in rs : r.src \in Nids(ClearNodes(ns, ds)) /\ r.dst \in Nids(ClearNodes(ns, ds))}


VARIABLES
    nodes,                  \* stored nodes
    rels,                   \* stored relationships
    faults,                 \* database statements that raised so far
    quota,                  \* calls each caller still makes
    pc,                     \* where each call is
    driver,                 \* loader.driver: "none", "open", "closed"
    file,                   \* graph_path's file
    dataset_name,
    clear_existing,
    idx,                    \* position of the running loop in its list
    nodes_created,
    relationships_created,
    result,                 \* what load_graph_to_neo4j returned: <<>> is None
    error,                  \* the exception the call met, "" if none
    clears,                 \* clear statements the call issued
    log,                    \* outcome of each record of the call, in order
    snap,                   \* the stored graph when the call started
    last,                   \* the call before this one, if it loaded every record
    connected               \* a connect() of the loader has returned True

dbvars == <<nodes, rels, faults>>
callvars == <<file, dataset_name, clear_existing, snap>>
loopvars == <<idx, nodes_created, relationships_created, log>>
vars == <<nodes, rels, faults, quota, pc, driver, file, dataset_name, clear_existing,
          idx, nodes_created, relationships_created, result, error, clears, log,
          snap, last, connected>>

\* ----------------------------------------------------------- construction
Stats(nc, rc, format) ==
    [nodes_created |-> nc, relationships_created |-> rc, format |-> format]

Graph(ns, rs) == [nodes |-> ns, rels |-> rs]

\* The database is empty and no call is running. Caller 1 makes its calls
\* one after the other (load_graph_to_neo4j is synchronous); caller 2 makes
\* none.
Init ==
    /\ nodes = {}
    /\ rels = {}
    /\ faults = 0
    /\ quota = [p \in Loaders |-> IF p = 1 THEN MaxLoads ELSE 0]
    /\ pc = [p \in Loaders |-> "idle"]
    /\ driver = [p \in Loaders |-> "none"]
    /\ file = [p \in Loaders |-> FMissing]
    /\ dataset_name = [p \in Loaders |-> "A"]
    /\ clear_existing = [p \in Loaders |-> TRUE]
    /\ idx = [p \in Loaders |-> 0]
    /\ nodes_created = [p \in Loaders |-> 0]
    /\ relationships_created = [p \in Loaders |-> 0]
    /\ result = [p \in Loaders |-> <<>>]
    /\ error = [p \in Loaders |-> ""]
    /\ clears = [p \in Loaders |-> 0]
    /\ log = [p \in Loaders |-> <<>>]
    /\ snap = [p \in Loaders |-> Graph({}, {})]
    /\ last = [p \in Loaders |-> <<>>]
    /\ connected = [p \in Loaders |-> FALSE]

\* ------------------------------------------------- load_graph_to_neo4j
\* The caller calls load_graph_to_neo4j(graph_path, dataset_name, ...,
\* clear_existing); a new Neo4jLoader is constructed, its driver None.
Call(p) ==
    /\ pc[p] \in {"idle", "returned"}
    /\ quota[p] > 0
    /\ \E f \in Files, d \in Datasets, c \in BOOLEAN :
          /\ file' = [file EXCEPT ![p] = f]
          /\ dataset_name' = [dataset_name EXCEPT ![p] = d]
          /\ clear_existing' = [clear_existing EXCEPT ![p] = c]
    /\ quota' = [quota EXCEPT ![p] = @ - 1]
    /\ pc' = [pc EXCEPT ![p] = "connect"]
    /\ driver' = [driver EXCEPT ![p] = "none"]
    /\ idx' = [idx EXCEPT ![p] = 0]
    /\ nodes_created' = [nodes_created EXCEPT ![p] = 0]
    /\ relationships_created' = [relationships_created EXCEPT ![p] = 0]
    /\ result' = [result EXCEPT ![p] = <<>>]
    /\ error' = [error EXCEPT ![p] = ""]
    /\ clears' = [clears EXCEPT ![p] = 0]
    /\ log' = [log EXCEPT ![p] = <<>>]
    /\ snap' = [snap EXCEPT ![p] = Graph(nodes, rels)]
    /\ connected' = [connected EXCEPT ![p] = FALSE]
    /\ UNCHANGED <<dbvars, last>>

\* connect(): GraphDatabase.driver(...) may raise before self.driver is
\* set; the test statement may raise after it; both return False, and
\* load_graph_to_neo4j then returns None through its finally.
Connect(p) ==
    /\ pc[p] = "connect"
    /\ \E outcome \in {"connected", "driver_raises", "session_raises"} :
          /\ driver' = [driver EXCEPT ![p] =
                            IF outcome = "driver_raises" THEN @ ELSE "open"]
          /\ error' = [error EXCEPT ![p] =
                            IF outcome = "connected" THEN @ ELSE "ConnectionError"]
          /\ pc' = [pc EXCEPT ![p] =
                            IF outcome = "connected" THEN "load" ELSE "finally"]
          /\ connected' = [connected EXCEPT ![p] = (outcome = "connected")]
    /\ UNCHANGED <<dbvars, quota, callvars, loopvars, result, clears, last>>

\* load_graph_from_json up to the clear: the driver is there, the file
\* must exist and json.load must decode it.
\* ReadFile with the clear requested whatever clear_existing says.
ReadFileAlwaysClears(p) ==
    /\ pc[p] = "load"
    /\ driver[p] # "none"
    /\ IF ~file[p].exists
       THEN /\ error' = [error EXCEPT ![p] = "NotFound"]
            /\ pc' = [pc EXCEPT ![p] = "finally"]
       ELSE IF ~file[p].valid
       THEN /\ error' = [error EXCEPT ![p] = "InvalidJSON"]
            /\ pc' = [pc EXCEPT ![p] = "finally"]
       ELSE /\ error' = error
            /\ pc' = [pc EXCEPT ![p] = "clear"]
    /\ UNCHANGED <<dbvars, quota, driver, callvars, loopvars, result, clears, last, connected>>

ReadFile(p) ==
    /\ pc[p] = "load"
    /\ driver[p] # "none"
    /\ IF ~file[p].exists
       THEN /\ error' = [error EXCEPT ![p] = "NotFound"]
            /\ pc' = [pc EXCEPT ![p] = "finally"]
       ELSE IF ~file[p].valid
       THEN /\ error' = [error EXCEPT ![p] = "InvalidJSON"]
            /\ pc' = [pc EXCEPT ![p] = "finally"]
       ELSE /\ error' = error
            /\ pc' = [pc EXCEPT ![p] = IF clear_existing[p] THEN "clear" ELSE "dispatch"]
    /\ UNCHANGED <<dbvars, quota, driver, callvars, loopvars, result, clears, last, connected>>

\* ClearGraph inside a transaction left open for the ingestion: nothing is
\* deleted in the store when clear_graph returns.
ClearGraphUncommitted(p) ==
    /\ pc[p] = "clear"
    /\ clears' = [clears EXCEPT ![p] = @ + 1]
    /\ pc' = [pc EXCEPT ![p] = "dispatch"]
    /\ UNCHANGED <<dbvars, quota, driver, callvars, loopvars, result, error, last, connected>>

\* clear_graph: the statement runs.
ClearGraph(p) ==
    /\ pc[p] = "clear"
    /\ nodes' = ClearNodes(nodes, dataset_name[p])
    /\ rels' = ClearRels(nodes, rels, dataset_name[p])
    /\ clears' = [clears EXCEPT ![p] = @ + 1]
    /\ pc' = [pc EXCEPT ![p] = "dispatch"]
    /\ UNCHANGED <<faults, quota, driver, callvars, loopvars, result, error, last, connected>>

\* ClearGraphRaises without the `raise` of its except clause: the error is
\* logged and load_graph_from_json goes on.
ClearGraphRaisesSwallowed(p) ==
    /\ pc[p] = "clear"
    /\ faults < MaxFaults
    /\ faults' = faults + 1
    /\ clears' = [clears EXCEPT ![p] = @ + 1]
    /\ error' = [error EXCEPT ![p] = "ClearFailed"]
    /\ pc' = [pc EXCEPT ![p] = "dispatch"]
    /\ UNCHANGED <<nodes, rels, quota, driver, callvars, loopvars, result, last, connected>>

\* clear_graph: the statement raises; the error is logged and raised again,
\* and load_graph_to_neo4j catches it and returns None.
ClearGraphRaises(p) ==
    /\ pc[p] = "clear"
    /\ faults < MaxFaults
    /\ faults' = faults + 1
    /\ clears' = [clears EXCEPT ![p] = @ + 1]
    /\ error' = [error EXCEPT ![p] = "ClearFailed"]
    /\ pc' = [pc EXCEPT ![p] = "finally"]
    /\ UNCHANGED <<nodes, rels, quota, driver, callvars, loopvars, result, last, connected>>

\* "Detect format and load"
Dispatch(p) ==
    /\ pc[p] = "dispatch"
    /\ IF file[p].shape = "list"
       THEN /\ pc' = [pc EXCEPT ![p] = "rel"]
            /\ error' = error
       ELSE IF file[p].shape = "dict" /\ file[p].hasNodes
       THEN /\ pc' = [pc EXCEPT ![p] = "nodes"]
            /\ error' = error
       ELSE /\ pc' = [pc EXCEPT ![p] = "finally"]
            /\ error' = [error EXCEPT ![p] = "UnknownFormat"]
    /\ idx' = [idx EXCEPT ![p] = 1]
    /\ UNCHANGED <<dbvars, quota, driver, callvars, nodes_created,
                   relationships_created, log, result, clears, last, connected>>

Logged(p, phase, out) ==
    log' = [log EXCEPT ![p] = Append(@, [phase |-> phase, i |-> idx[p], out |-> out])]

\* --------------------------------------- _load_relationship_list_format
Item(p) == file[p].items[idx[p]]

\* SkipItem testing the start name alone.
SkipItemStartOnly(item) == Falsy(Get(item.start_node.properties.name, ""))

\* if not start_name or not end_name: continue
SkipItem(item) ==
    \/ Falsy(Get(item.start_node.properties.name, ""))
    \/ Falsy(Get(item.end_node.properties.name, ""))

\* props.get("schema_type", node.get("label", "Entity"))
NodeType(ep) == Get(ep.properties.schema_type, Get(ep.label, "Entity"))

InRelLoop(p) == pc[p] = "rel" /\ idx[p] <= Len(file[p].items)

RelRecordSkip(p) ==
    /\ InRelLoop(p)
    /\ SkipItem(Item(p))
    /\ Logged(p, "rel", "skip")
    /\ idx' = [idx EXCEPT ![p] = @ + 1]
    /\ UNCHANGED <<dbvars, quota, pc, driver, callvars, nodes_created,
                   relationships_created, result, error, clears, last, connected>>

\* RelRecord counting the nodes its statement really created.
RelRecordCountsCreated(p) ==
    /\ InRelLoop(p)
    /\ ~SkipItem(Item(p))
    /\ LET item == Item(p)
           st == RelationshipStatement(nodes, rels,
                    item.start_node.properties.name, item.end_node.properties.name,
                    dataset_name[p], NodeType(item.start_node), NodeType(item.end_node),
                    item.start_node.properties, item.end_node.properties,
                    Get(item.relation, "RELATED_TO"))
       IN  /\ nodes' = st.nodes
           /\ rels' = st.rels
           /\ nodes_created' = [nodes_created EXCEPT ![p] =
                                    @ + Cardinality(st.nodes) - Cardinality(nodes)]
           /\ relationships_created' = [relationships_created EXCEPT ![p] =
                                    IF st.rows # {} THEN @ + 1 ELSE @]
    /\ Logged(p, "rel", "ok")
    /\ idx' = [idx EXCEPT ![p] = @ + 1]
    /\ UNCHANGED <<faults, quota, pc, driver, callvars, result, error, clears, last, connected>>

\* the statement runs; `if result.peek()` counts it when it returned a row
RelRecord(p) ==
    /\ InRelLoop(p)
    /\ ~SkipItem(Item(p))
    /\ LET item == Item(p)
           st == RelationshipStatement(nodes, rels,
                    item.start_node.properties.name, item.end_node.properties.name,
                    dataset_name[p], NodeType(item.start_node), NodeType(item.end_node),
                    item.start_node.properties, item.end_node.properties,
                    Get(item.relation, "RELATED_TO"))
       IN  /\ nodes' = st.nodes
           /\ rels' = st.rels
           /\ nodes_created' = [nodes_created EXCEPT ![p] =
                                    IF st.rows # {} THEN @ + 2 ELSE @]
           /\ relationships_created' = [relationships_created EXCEPT ![p] =
                                    IF st.rows # {} THEN @ + 1 ELSE @]
    /\ Logged(p, "rel", "ok")
    /\ idx' = [idx EXCEPT ![p] = @ + 1]
    /\ UNCHANGED <<faults, quota, pc, driver, callvars, result, error, clears, last, connected>>

\* RelRecordRaises with the try around the loop instead of inside it: the
\* exception leaves the ingester.
RelRecordRaisesAborts(p) ==
    /\ InRelLoop(p)
    /\ ~SkipItem(Item(p))
    /\ faults < MaxFaults
    /\ faults' = faults + 1
    /\ Logged(p, "rel", "fail")
    /\ idx' = [idx EXCEPT ![p] = @ + 1]
    /\ error' = [error EXCEPT ![p] = "WriteError"]
    /\ pc' = [pc EXCEPT ![p] = "finally"]
    /\ UNCHANGED <<nodes, rels, quota, driver, callvars, nodes_created,
                   relationships_created, result, clears, last, connected>>

\* the statement raises: a warning is logged and the loop continues
RelRecordRaises(p) ==
    /\ InRelLoop(p)
    /\ ~SkipItem(Item(p))
    /\ faults < MaxFaults
    /\ faults' = faults + 1
    /\ Logged(p, "rel", "fail")
    /\ idx' = [idx EXCEPT ![p] = @ + 1]
    /\ UNCHANGED <<nodes, rels, quota, pc, driver, callvars, nodes_created,
                   relationships_created, result, error, clears, last, connected>>

\* ------------------------------------------------- _load_standard_format
NodeAt(p) == file[p].nodes[idx[p]]
EdgeAt(p) == file[p].edges[idx[p]]

\* if not node_id: continue
SkipNode(node) == Falsy(Get(node.id, ""))

\* if not source or not target: continue
SkipEdge(edge) == Falsy(Get(edge.source, "")) \/ Falsy(Get(edge.target, ""))

InNodeLoop(p) == pc[p] = "nodes" /\ idx[p] <= Len(file[p].nodes)
InEdgeLoop(p) == pc[p] = "edges" /\ idx[p] <= Len(file[p].edges)

NodeRecordSkip(p) ==
    /\ InNodeLoop(p)
    /\ SkipNode(NodeAt(p))
    /\ Logged(p, "nodes", "skip")
    /\ idx' = [idx EXCEPT ![p] = @ + 1]
    /\ UNCHANGED <<dbvars, quota, pc, driver, callvars, nodes_created,
                   relationships_created, result, error, clears, last, connected>>

NodeRecord(p) ==
    /\ InNodeLoop(p)
    /\ ~SkipNode(NodeAt(p))
    /\ LET node == NodeAt(p)
       IN  nodes' = NodeStatement(nodes, node.id, Get(node.name, node.id),
                                  Get(node.type, "Entity"), Get(node.attributes, "[]"),
                                  dataset_name[p])
    /\ nodes_created' = [nodes_created EXCEPT ![p] = @ + 1]
    /\ Logged(p, "nodes", "ok")
    /\ idx' = [idx EXCEPT ![p] = @ + 1]
    /\ UNCHANGED <<rels, faults, quota, pc, driver, callvars, relationships_created,
                   result, error, clears, last, connected>>

NodeRecordRaises(p) ==
    /\ InNodeLoop(p)
    /\ ~SkipNode(NodeAt(p))
    /\ faults < MaxFaults
    /\ faults' = faults + 1
    /\ Logged(p, "nodes", "fail")
    /\ idx' = [idx EXCEPT ![p] = @ + 1]
    /\ UNCHANGED <<nodes, rels, quota, pc, driver, callvars, nodes_created,
                   relationships_created, result, error, clears, last, connected>>

\* NodesDone leaving the node loop before its last record: edges written
\* while nodes are still to come.
NodesDoneEarly(p) ==
    /\ pc[p] = "nodes"
    /\ pc' = [pc EXCEPT ![p] = "edges"]
    /\ idx' = [idx EXCEPT ![p] = 1]
    /\ UNCHANGED <<dbvars, quota, driver, callvars, nodes_created,
                   relationships_created, log, result, error, clears, last, connected>>

\* the node loop is over: the edge loop starts
NodesDone(p) ==
    /\ pc[p] = "nodes"
    /\ idx[p] > Len(file[p].nodes)
    /\ pc' = [pc EXCEPT ![p] = "edges"]
    /\ idx' = [idx EXCEPT ![p] = 1]
    /\ UNCHANGED <<dbvars, quota, driver, callvars, nodes_created,
                   relationships_created, log, result, error, clears, last, connected>>

EdgeRecordSkip(p) ==
    /\ InEdgeLoop(p)
    /\ SkipEdge(EdgeAt(p))
    /\ Logged(p, "edges", "skip")
    /\ idx' = [idx EXCEPT ![p] = @ + 1]
    /\ UNCHANGED <<dbvars, quota, pc, driver, callvars, nodes_created,
                   relationships_created, result, error, clears, last, connected>>

\* the statement runs (matching nothing is no error); the counter is
\* incremented after every session.run that returned
EdgeRecord(p) ==
    /\ InEdgeLoop(p)
    /\ ~SkipEdge(EdgeAt(p))
    /\ LET edge == EdgeAt(p)
           st == EdgeStatement(nodes, rels, edge.source, edge.target,
                               Get(edge.relation, "RELATED_TO"), Get(edge.weight, "1.0"),
                               dataset_name[p])
       IN  /\ nodes' = st.nodes
           /\ rels' = st.rels
    /\ relationships_created' = [relationships_created EXCEPT ![p] = @ + 1]
    /\ Logged(p, "edges", "ok")
    /\ idx' = [idx EXCEPT ![p] = @ + 1]
    /\ UNCHANGED <<faults, quota, pc, driver, callvars, nodes_created,
                   result, error, clears, last, connected>>

EdgeRecordRaises(p) ==
    /\ InEdgeLoop(p)
    /\ ~SkipEdge(EdgeAt(p))
    /\ faults < MaxFaults
    /\ faults' = faults + 1
    /\ Logged(p, "edges", "fail")
    /\ idx' = [idx EXCEPT ![p] = @ + 1]
    /\ UNCHANGED <<nodes, rels, quota, pc, driver, callvars, nodes_created,
                   relationships_created, result, error, clears, last, connected>>

\* ------------------------------------------------------------ the returns
\* An ingester's loop is over: it returns its stats, which
\* load_graph_from_json and load_graph_to_neo4j hand on.
ReturnStats(p) ==
    /\ \/ pc[p] = "rel" /\ idx[p] > Len(file[p].items)
       \/ pc[p] = "edges" /\ idx[p] > Len(file[p].edges)
    /\ result' = [result EXCEPT ![p] =
                    <<Stats(nodes_created[p], relationships_created[p],
                            IF pc[p] = "rel" THEN "relationship_list" ELSE "standard")>>]
    /\ pc' = [pc EXCEPT ![p] = "finally"]
    /\ UNCHANGED <<dbvars, quota, driver, callvars, loopvars, error, clears, last, connected>>

\* Close that closes nothing: load_graph_to_neo4j without its finally.
CloseSkipped(d) == d

\* close(): if self.driver: self.driver.close()
Close(d) == IF d # "none" THEN "closed" ELSE d

\* The call returned stats and none of its statements raised.
CleanLoad(p) ==
    /\ result[p] # <<>>
    /\ \A i \in 1..Len(log[p]) : log[p][i].out # "fail"

\* The finally of load_graph_to_neo4j, then its return to the caller (None
\* after an exception or a failed connect).
Finally(p) ==
    /\ pc[p] = "finally"
    /\ driver' = [driver EXCEPT ![p] = Close(@)]
    /\ pc' = [pc EXCEPT ![p] = "returned"]
    /\ last' = [last EXCEPT ![p] =
                    IF CleanLoad(p)
                    THEN <<[file |-> file[p], dataset |-> dataset_name[p],
                            result |-> result[p], after |-> Graph(nodes, rels)]>>
                    ELSE <<>>]
    /\ UNCHANGED <<dbvars, quota, callvars, loopvars, result, error, clears, connected>>

Next ==
    \E p \in Loaders :
        \/ Call(p)
        \/ Connect(p)
        \/ ReadFile(p)
        \/ ClearGraph(p)
        \/ ClearGraphRaises(p)
        \/ Dispatch(p)
        \/ RelRecordSkip(p)
        \/ RelRecord(p)
        \/ RelRecordRaises(p)
        \/ NodeRecordSkip(p)
        \/ NodeRecord(p)
        \/ NodeRecordRaises(p)
        \/ NodesDone(p)
        \/ EdgeRecordSkip(p)
        \/ EdgeRecord(p)
        \/ EdgeRecordRaises(p)
        \/ ReturnStats(p)
        \/ Finally(p)

Spec == Init /\ [][Next]_vars

\* ------------------------------------------------------------- the claims
\* The step just taken handled the record at idx[p] of p's running loop.
Handled(p) == idx'[p] = idx[p] + 1

\* C1: in the standard ingester, an edge record with non-empty source and
\* target of which at least one id has no stored node in the load's dataset
\* creates no relationship, raises no fatal error and does not increment
\* relationships_created.
C1_MissingEndpointNotCounted ==
    [][\A p \in Loaders :
          (/\ InEdgeLoop(p)
           /\ ~Falsy(EdgeAt(p).source) /\ ~Falsy(EdgeAt(p).target)
           /\ \/ MatchById(nodes, EdgeAt(p).source, dataset_name[p]) = {}
              \/ MatchById(nodes, EdgeAt(p).target, dataset_name[p]) = {}
           /\ Handled(p))
          => /\ rels' = rels
             /\ pc'[p] = "edges" /\ error'[p] = ""
             /\ relationships_created'[p] = relationships_created[p]]_vars

\* C2: the clear of a load is issued only after the document has been
\* classified: a load with clear_existing = true that fails with
\* UnknownFormat has issued no clear and left the stored graph unchanged.
C2_NoClearBeforeClassification ==
    \A p \in Loaders :
        (pc[p] \in {"finally", "returned"} /\ error[p] = "UnknownFormat")
        => clears[p] = 0 /\ Graph(nodes, rels) = snap[p]

\* C3: the clear of dataset A leaves every node and every relationship
\* tagged with another dataset present and unchanged, and leaves no node
\* tagged A.
C3_ClearKeepsOtherDatasets ==
    [][\A p \in Loaders :
          (pc[p] = "clear" /\ pc'[p] = "dispatch")
          => /\ \A n \in nodes : n.dataset # dataset_name[p] => n \in nodes'
             /\ \A r \in rels : r.dataset # dataset_name[p] => r \in rels'
             /\ \A n \in nodes' : n.dataset # dataset_name[p]]_vars

\* C4: loading the same relationship-list file a second time into the same
\* dataset with clear_existing = false, no statement raising in either
\* load, leaves as many stored nodes and stored relationships as the first
\* load left.
C4_RelationshipListIdempotent ==
    \A p \in Loaders :
        (/\ pc[p] = "finally" /\ CleanLoad(p)
         /\ file[p].shape = "list" /\ ~clear_existing[p]
         /\ last[p] # <<>>
         /\ last[p][1].file = file[p] /\ last[p][1].dataset = dataset_name[p])
        => /\ Cardinality(nodes) = Cardinality(last[p][1].after.nodes)
           /\ Cardinality(rels) = Cardinality(last[p][1].after.rels)

\* C5: every node and every relationship a load into dataset D writes
\* (creates or updates) carries the dataset tag D afterwards.
C5_WritesCarryDatasetTag ==
    [][\A p \in Loaders :
          (pc[p] \in {"rel", "nodes", "edges"} /\ Handled(p))
          => /\ \A n \in nodes' \ nodes : n.dataset = dataset_name[p]
             /\ \A r \in rels' \ rels : r.dataset = dataset_name[p]]_vars

\* C6: every call of load_graph_to_neo4j ends with the connection released:
\* when it has returned, whatever the exit path, the driver it opened is
\* closed (no driver at all only when GraphDatabase.driver itself raised).
C6_DriverReleased ==
    \A p \in Loaders :
        pc[p] \in {"idle", "returned"}
        => /\ driver[p] # "open"
           /\ driver[p] = "none" => (pc[p] = "idle" \/ error[p] = "ConnectionError")

\* a call whose connect opened the driver and then failed has returned
C6_Witness ==
    \E p \in Loaders :
        pc[p] = "returned" /\ error[p] = "ConnectionError" /\ driver[p] = "closed"

\* C7: when the clear of a load fails, the load returns a failure (None) and
\* handles no record at all: no counter moves, no ingester runs.
C7_NoIngestAfterFailedClear ==
    \A p \in Loaders :
        error[p] = "ClearFailed"
        => /\ pc[p] \in {"finally", "returned"}
           /\ result[p] = <<>>
           /\ log[p] = <<>>
           /\ nodes_created[p] = 0 /\ relationships_created[p] = 0

\* a load of a file with records has returned after its clear failed
C7_Witness ==
    \E p \in Loaders :
        /\ pc[p] = "returned" /\ error[p] = "ClearFailed"
        /\ Len(file[p].items) + Len(file[p].nodes) > 0

\* The records of p's file in the order the ingester visits them.
Records(p) ==
    IF file[p].shape = "list"
    THEN [i \in 1..Len(file[p].items) |-> [phase |-> "rel", i |-> i]]
    ELSE [i \in 1..(Len(file[p].nodes) + Len(file[p].edges)) |->
            IF i <= Len(file[p].nodes)
            THEN [phase |-> "nodes", i |-> i]
            ELSE [phase |-> "edges", i |-> i - Len(file[p].nodes)]]

\* The record lacks a non-empty required identity field.
EmptyIdentity(p, phase, i) ==
    IF phase = "rel"
    THEN \/ file[p].items[i].start_node.properties.name \in {"", Absent}
         \/ file[p].items[i].end_node.properties.name \in {"", Absent}
    ELSE IF phase = "nodes"
    THEN file[p].nodes[i].id \in {"", Absent}
    ELSE \/ file[p].edges[i].source \in {"", Absent}
         \/ file[p].edges[i].target \in {"", Absent}

Outcomes(p, phase, out) ==
    Cardinality({i \in 1..Len(log[p]) : log[p][i].phase = phase /\ log[p][i].out = out})

\* C8: in both ingesters a statement that raises on one record is recovered
\* locally: the records are handled one by one in input order, every record
\* with its identity fields is attempted whatever happened to the ones
\* before it, the counters count exactly the records whose statement ran,
\* and the load runs to its end and returns its stats.
C8_RecordFailureRecovered ==
    \A p \in Loaders :
        /\ Len(log[p]) <= Len(Records(p))
        /\ \A i \in 1..Len(log[p]) :
              /\ log[p][i].phase = Records(p)[i].phase
              /\ log[p][i].i = Records(p)[i].i
              /\ log[p][i].out = "skip" <=> EmptyIdentity(p, log[p][i].phase, log[p][i].i)
        /\ nodes_created[p] = 2 * Outcomes(p, "rel", "ok") + Outcomes(p, "nodes", "ok")
        /\ relationships_created[p] = Outcomes(p, "rel", "ok") + Outcomes(p, "edges", "ok")
        /\ (\E i \in 1..Len(log[p]) : log[p][i].out = "fail")
           => /\ error[p] = ""
              /\ pc[p] \in {"rel", "nodes", "edges", "finally", "returned"}
              /\ pc[p] \in {"finally", "returned"}
                 => /\ Len(log[p]) = Len(Records(p))
                    /\ result[p] = <<Stats(nodes_created[p], relationships_created[p],
                                           IF file[p].shape = "list"
                                           THEN "relationship_list" ELSE "standard")>>

\* a load has returned its stats after a statement raised on a record that
\* was not the last, and a later record was written
C8_Witness ==
    \E p \in Loaders :
        /\ pc[p] = "returned" /\ result[p] # <<>>
        /\ \E i, j \in 1..Len(log[p]) :
              i < j /\ log[p][i].out = "fail" /\ log[p][j].out = "ok"

\* C9: a record whose required identity field is empty or absent causes no
\* database statement (nothing stored changes, nothing can raise), moves
\* no counter and raises no error; the loop goes on to the next record.
C9_EmptyIdentitySkipped ==
    [][\A p \in Loaders :
          (/\ InRelLoop(p) \/ InNodeLoop(p) \/ InEdgeLoop(p)
           /\ EmptyIdentity(p, pc[p], idx[p])
           /\ Handled(p))
          => /\ nodes' = nodes /\ rels' = rels /\ faults' = faults
             /\ nodes_created'[p] = nodes_created[p]
             /\ relationships_created'[p] = relationships_created[p]
             /\ error'[p] = "" /\ pc'[p] = pc[p]
             /\ log'[p][Len(log'[p])].out = "skip"]_vars

\* a record was skipped and a later record of the same load was written
C9_Witness ==
    \E p \in Loaders :
        \E i, j \in 1..Len(log[p]) :
            i < j /\ log[p][i].out = "skip" /\ log[p][j].out = "ok"

\* C10: an edge write of the standard ingester creates no node, and every
\* relationship it creates or updates connects two nodes that were stored
\* under the load's dataset, with the edge's source and target ids, when
\* the statement ran.
C10_EdgeEndpointsStored ==
    [][\A p \in Loaders :
          (InEdgeLoop(p) /\ Handled(p))
          => /\ nodes' = nodes
             /\ \A r \in rels' \ rels :
                   \E a, b \in nodes :
                      /\ a.nid = r.src /\ b.nid = r.dst
                      /\ a.dataset = dataset_name[p] /\ b.dataset = dataset_name[p]
                      /\ a.id = EdgeAt(p).source /\ b.id = EdgeAt(p).target]_vars

\* an edge write has just created a relationship
C10_Witness ==
    \E p \in Loaders :
        /\ pc[p] = "edges" /\ Len(log[p]) > 0
        /\ log[p][Len(log[p])] = [phase |-> "edges", i |-> idx[p] - 1, out |-> "ok"]
        /\ rels \ snap[p].rels # {}

\* The node loop of p's load wrote a node record with this id.
NodeWritten(p, id) ==
    \E i \in 1..Len(file[p].nodes) :
        /\ file[p].nodes[i].id = id
        /\ i <= Len(log[p])
        /\ log[p][i] = [phase |-> "nodes", i |-> i, out |-> "ok"]

\* C11: in a standard load every node record has been handled before the
\* first edge write, and an edge statement that runs, for a source and a
\* target whose node records were both written, leaves a relationship of
\* the edge's type between the nodes of those ids, wherever the two node
\* records stand in the list.
C11_NodesBeforeEdges ==
    [][\A p \in Loaders :
          (InEdgeLoop(p) /\ Handled(p))
          => /\ Len(log[p]) >= Len(file[p].nodes)
             /\ \A i \in 1..Len(file[p].nodes) :
                   log[p][i].phase = "nodes" /\ log[p][i].i = i
             /\ (/\ log'[p][Len(log'[p])].out = "ok"
                 /\ NodeWritten(p, EdgeAt(p).source)
                 /\ NodeWritten(p, EdgeAt(p).target))
                => \E r \in rels' : \E a, b \in nodes' :
                      /\ a.nid = r.src /\ b.nid = r.dst
                      /\ a.id = EdgeAt(p).source /\ b.id = EdgeAt(p).target
                      /\ a.dataset = dataset_name[p] /\ b.dataset = dataset_name[p]
                      /\ r.type = Get(EdgeAt(p).relation, "RELATED_TO")
                      /\ r.dataset = dataset_name[p]
                      /\ r.weight = Get(EdgeAt(p).weight, "1.0")]_vars

\* an edge was written whose target's node record comes after its source's
\* in the nodes list, with skipped records between them
C11_Witness ==
    \E p \in Loaders :
        /\ pc[p] = "edges" /\ file[p] = FStd3 /\ idx[p] = 4
        /\ log[p][Len(log[p])].out = "ok"
        /\ NodeWritten(p, "2") /\ NodeWritten(p, "1")
        /\ \E r \in rels : r.dataset = dataset_name[p] /\ r.type = "RELATED_TO"

\* ------------------------------------------------------ concurrent callers
\* Two callers call load_graph_to_neo4j once each, at the same time, over
\* an empty database: their statements interleave in every order.
InitConc ==
    /\ nodes = {}
    /\ rels = {}
    /\ faults = 0
    /\ quota = [p \in Loaders |-> 1]
    /\ pc = [p \in Loaders |-> "idle"]
    /\ driver = [p \in Loaders |-> "none"]
    /\ file = [p \in Loaders |-> FMissing]
    /\ dataset_name = [p \in Loaders |-> "A"]
    /\ clear_existing = [p \in Loaders |-> TRUE]
    /\ idx = [p \in Loaders |-> 0]
    /\ nodes_created = [p \in Loaders |-> 0]
    /\ relationships_created = [p \in Loaders |-> 0]
    /\ result = [p \in Loaders |-> <<>>]
    /\ error = [p \in Loaders |-> ""]
    /\ clears = [p \in Loaders |-> 0]
    /\ log = [p \in Loaders |-> <<>>]
    /\ snap = [p \in Loaders |-> Graph({}, {})]
    /\ last = [p \in Loaders |-> <<>>]
    /\ connected = [p \in Loaders |-> FALSE]

SpecConc == InitConc /\ [][Next]_vars

\* ------------------------------------------------------ a load run alone
\* load_graph_from_json run to its end with no other caller and no
\* statement raising: the stored graph it leaves, from the stored graph g.
RECURSIVE RelLoop(_, _, _, _)
RelLoop(items, i, ds, g) ==
    IF i > Len(items) THEN g
    ELSE IF SkipItem(items[i]) THEN RelLoop(items, i + 1, ds, g)
    ELSE LET item == items[i]
             st == RelationshipStatement(g.nodes, g.rels,
                      item.start_node.properties.name, item.end_node.properties.name,
                      ds, NodeType(item.start_node), NodeType(item.end_node),
                      item.start_node.properties, item.end_node.properties,
                      Get(item.relation, "RELATED_TO"))
         IN  RelLoop(items, i + 1, ds, Graph(st.nodes, st.rels))

RECURSIVE NodeLoop(_, _, _, _)
NodeLoop(ns, i, ds, g) ==
    IF i > Len(ns) THEN g
    ELSE IF SkipNode(ns[i]) THEN NodeLoop(ns, i + 1, ds, g)
    ELSE NodeLoop(ns, i + 1, ds,
                  Graph(NodeStatement(g.nodes, ns[i].id, Get(ns[i].name, ns[i].id),
                                      Get(ns[i].type, "Entity"),
                                      Get(ns[i].attributes, "[]"), ds),
                        g.rels))

RECURSIVE EdgeLoop(_, _, _, _)
EdgeLoop(es, i, ds, g) ==
    IF i > Len(es) THEN g
    ELSE IF SkipEdge(es[i]) THEN EdgeLoop(es, i + 1, ds, g)
    ELSE LET st == EdgeStatement(g.nodes, g.rels, es[i].source, es[i].target,
                                 Get(es[i].relation, "RELATED_TO"),
                                 Get(es[i].weight, "1.0"), ds)
         IN  EdgeLoop(es, i + 1, ds, Graph(st.nodes, st.rels))

LoadAlone(f, ds, clr, g) ==
    LET g0 == IF clr THEN Graph(ClearNodes(g.nodes, ds), ClearRels(g.nodes, g.rels, ds))
              ELSE g
    IN  IF ~f.exists \/ ~f.valid THEN g
        ELSE IF f.shape = "list" THEN RelLoop(f.items, 1, ds, g0)
        ELSE IF f.shape = "dict" /\ f.hasNodes
        THEN EdgeLoop(f.edges, 1, ds, NodeLoop(f.nodes, 1, ds, g0))
        ELSE g0

\* What that load returns: its stats, or None.
ResultAlone(f) ==
    LET kept(s, Skip(_)) == Cardinality({i \in 1..Len(s) : ~Skip(s[i])})
    IN  IF ~f.exists \/ ~f.valid THEN <<>>
        ELSE IF f.shape = "list"
        THEN <<Stats(2 * kept(f.items, SkipItem), kept(f.items, SkipItem),
                     "relationship_list")>>
        ELSE IF f.shape = "dict" /\ f.hasNodes
        THEN <<Stats(kept(f.nodes, SkipNode), kept(f.edges, SkipEdge), "standard")>>
        ELSE <<>>

\* A stored graph up to the identities the database gave its nodes.
Shape(n) ==
    [id |-> n.id, name |-> n.name, dataset |-> n.dataset, type |-> n.type,
     schema_type |-> n.schema_type, attributes |-> n.attributes]

NodeOf(g, nid) == CHOOSE n \in g.nodes : n.nid = nid

Canon(g) ==
    [nodes |-> {Shape(n) : n \in g.nodes},
     rels |-> {[src |-> Shape(NodeOf(g, r.src)), dst |-> Shape(NodeOf(g, r.dst)),
                type |-> r.type, dataset |-> r.dataset, weight |-> r.weight] :
                  r \in g.rels}]

\* The part of a stored graph tagged with dataset ds.
DatasetGraph(g, ds) ==
    [nodes |-> {n \in Canon(g).nodes : n.dataset = ds},
     rels |-> {r \in Canon(g).rels : r.dataset = ds}]

\* Both calls have returned, both connected and no statement raised.
BothReturned ==
    /\ \A p \in Loaders : pc[p] = "returned" /\ error[p] # "ConnectionError"
    /\ faults = 0

\* C12 (different datasets): two loads running concurrently into two
\* different datasets leave, under every interleaving, the stored graph of
\* each dataset and the result of each load as that load leaves them when
\* it runs alone.
C12_DifferentDatasetsIndependent ==
    (BothReturned /\ dataset_name[1] # dataset_name[2])
    => \A p \in Loaders :
          /\ result[p] = ResultAlone(file[p])
          /\ DatasetGraph(Graph(nodes, rels), dataset_name[p])
             = DatasetGraph(LoadAlone(file[p], dataset_name[p], clear_existing[p],
                                      Graph({}, {})),
                            dataset_name[p])

\* C12 (same dataset): two concurrent loads into one dataset with
\* clear_existing = true have interleaved their clears and writes so that
\* the stored graph is the one of neither sequential order.
C12_SameDatasetRace ==
    /\ BothReturned
    /\ dataset_name[1] = dataset_name[2]
    /\ clear_existing[1] /\ clear_existing[2]
    /\ result[1] # <<>> /\ result[2] # <<>>
    /\ LET alone(p, g) == LoadAlone(file[p], dataset_name[p], TRUE, g)
       IN  /\ Canon(Graph(nodes, rels)) # Canon(alone(2, alone(1, Graph({}, {}))))
           /\ Canon(Graph(nodes, rels)) # Canon(alone(1, alone(2, Graph({}, {}))))

\* ------------------------------------------- the Neo4jLoader object, used
\* directly: its user constructs it (driver None) and calls connect(),
\* clear_graph() and load_graph_from_json() in any order.
InitApi ==
    /\ nodes = {}
    /\ rels = {}
    /\ faults = 0
    /\ quota = [p \in Loaders |-> IF p = 1 THEN MaxApiCalls ELSE 0]
    /\ pc = [p \in Loaders |-> IF p = 1 THEN "object" ELSE "idle"]
    /\ driver = [p \in Loaders |-> "none"]
    /\ file = [p \in Loaders |-> FMissing]
    /\ dataset_name = [p \in Loaders |-> "A"]
    /\ clear_existing = [p \in Loaders |-> TRUE]
    /\ idx = [p \in Loaders |-> 0]
    /\ nodes_created = [p \in Loaders |-> 0]
    /\ relationships_created = [p \in Loaders |-> 0]
    /\ result = [p \in Loaders |-> <<>>]
    /\ error = [p \in Loaders |-> ""]
    /\ clears = [p \in Loaders |-> 0]
    /\ log = [p \in Loaders |-> <<>>]
    /\ snap = [p \in Loaders |-> Graph({}, {})]
    /\ last = [p \in Loaders |-> <<>>]
    /\ connected = [p \in Loaders |-> FALSE]

\* loader.connect()
ApiConnect(p) ==
    /\ pc[p] = "object"
    /\ quota[p] > 0
    /\ quota' = [quota EXCEPT ![p] = @ - 1]
    /\ \E outcome \in {"connected", "driver_raises", "session_raises"} :
          /\ driver' = [driver EXCEPT ![p] =
                            IF outcome = "driver_raises" THEN @ ELSE "open"]
          /\ error' = [error EXCEPT ![p] =
                            IF outcome = "connected" THEN "" ELSE "ConnectionError"]
          /\ connected' = [connected EXCEPT ![p] = @ \/ outcome = "connected"]
    /\ UNCHANGED <<dbvars, pc, callvars, loopvars, result, clears, last>>

\* loader.clear_graph(dataset_name): without a driver it raises
\* RuntimeError; with one, the statement runs.
ApiClearGraph(p) ==
    /\ pc[p] = "object"
    /\ quota[p] > 0
    /\ quota' = [quota EXCEPT ![p] = @ - 1]
    /\ \E d \in Datasets :
          /\ dataset_name' = [dataset_name EXCEPT ![p] = d]
          /\ IF driver[p] = "none"
             THEN /\ error' = [error EXCEPT ![p] = "NotInitialized"]
                  /\ UNCHANGED <<nodes, rels, clears>>
             ELSE /\ error' = [error EXCEPT ![p] = ""]
                  /\ nodes' = ClearNodes(nodes, d)
                  /\ rels' = ClearRels(nodes, rels, d)
                  /\ clears' = [clears EXCEPT ![p] = @ + 1]
    /\ UNCHANGED <<faults, pc, driver, file, clear_existing, snap, loopvars, result,
                   last, connected>>

\* loader.clear_graph(dataset_name): the statement raises.
ApiClearGraphRaises(p) ==
    /\ pc[p] = "object"
    /\ quota[p] > 0
    /\ driver[p] # "none"
    /\ faults < MaxFaults
    /\ faults' = faults + 1
    /\ quota' = [quota EXCEPT ![p] = @ - 1]
    /\ \E d \in Datasets : dataset_name' = [dataset_name EXCEPT ![p] = d]
    /\ error' = [error EXCEPT ![p] = "ClearFailed"]
    /\ clears' = [clears EXCEPT ![p] = @ + 1]
    /\ UNCHANGED <<nodes, rels, pc, driver, file, clear_existing, snap, loopvars,
                   result, last, connected>>

\* loader.load_graph_from_json(graph_path, dataset_name, clear_existing):
\* without a driver it raises RuntimeError; with one, it goes on.
ApiLoadGraphFromJson(p) ==
    /\ pc[p] = "object"
    /\ quota[p] > 0
    /\ quota' = [quota EXCEPT ![p] = @ - 1]
    /\ \E f \in Files, d \in Datasets, c \in BOOLEAN :
          /\ file' = [file EXCEPT ![p] = f]
          /\ dataset_name' = [dataset_name EXCEPT ![p] = d]
          /\ clear_existing' = [clear_existing EXCEPT ![p] = c]
    /\ IF driver[p] = "none"
       THEN /\ error' = [error EXCEPT ![p] = "NotInitialized"]
            /\ pc' = pc
       ELSE /\ error' = [error EXCEPT ![p] = ""]
            /\ pc' = [pc EXCEPT ![p] = "load"]
    /\ idx' = [idx EXCEPT ![p] = 0]
    /\ nodes_created' = [nodes_created EXCEPT ![p] = 0]
    /\ relationships_created' = [relationships_created EXCEPT ![p] = 0]
    /\ result' = [result EXCEPT ![p] = <<>>]
    /\ log' = [log EXCEPT ![p] = <<>>]
    /\ snap' = [snap EXCEPT ![p] = Graph(nodes, rels)]
    /\ UNCHANGED <<dbvars, driver, clears, last, connected>>

\* load_graph_from_json returns its stats or raises, to the object's user.
ApiReturn(p) ==
    /\ pc[p] = "finally"
    /\ pc' = [pc EXCEPT ![p] = "object"]
    /\ UNCHANGED <<dbvars, quota, driver, callvars, loopvars, result, error, clears,
                   last, connected>>

NextApi ==
    \E p \in Loaders :
        \/ ApiConnect(p)
        \/ ApiClearGraph(p)
        \/ ApiClearGraphRaises(p)
        \/ ApiLoadGraphFromJson(p)
        \/ ApiReturn(p)
        \/ ReadFile(p)
        \/ ClearGraph(p)
        \/ ClearGraphRaises(p)
        \/ Dispatch(p)
        \/ RelRecordSkip(p)
        \/ RelRecord(p)
        \/ RelRecordRaises(p)
        \/ NodeRecordSkip(p)
        \/ NodeRecord(p)
        \/ NodeRecordRaises(p)
        \/ NodesDone(p)
        \/ EdgeRecordSkip(p)
        \/ EdgeRecord(p)
        \/ EdgeRecordRaises(p)
        \/ ReturnStats(p)

SpecApi == InitApi /\ [][NextApi]_vars

\* C13: a loader issues no clear and handles no record unless a connect()
\* of it has succeeded before: load_graph_from_json and clear_graph raise
\* before touching the database, and after a failed connect()
\* load_graph_to_neo4j returns None without a statement.
C13_NoStatementWithoutConnect ==
    \A p \in Loaders :
        ~connected[p]
        => /\ clears[p] = 0 /\ log[p] = <<>>
           /\ pc[p] \in {"idle", "object", "connect", "finally", "returned"}
           /\ result[p] = <<>>

\* what the graph g held is still stored: every node, every relationship
Kept(g) ==
    /\ Nids(g.nodes) \subseteq Nids(nodes)
    /\ \A r \in g.rels :
          \E s \in rels : /\ s.src = r.src /\ s.dst = r.dst
                          /\ s.type = r.type /\ s.dataset = r.dataset

\* C14: a load with clear_existing=false issues no clear and removes no
\* node and no relationship that was stored when it was called, of any
\* dataset; a load with clear_existing=true that gets to its ingestion has
\* issued the clear exactly once, and before its first record was handled.
C14_ClearOnlyOnRequest ==
    \A p \in Loaders :
        /\ clears[p] <= 1
        /\ ~clear_existing[p] => (clears[p] = 0 /\ Kept(snap[p]))
        /\ (/\ clear_existing[p]
            /\ \/ log[p] # <<>>
               \/ result[p] # <<>>
               \/ pc[p] \in {"dispatch", "rel", "nodes", "edges"})
           => clears[p] = 1

\* an additive load into a dataset that held nodes and relationships has
\* returned, having written more
C14_Witness ==
    \E p \in Loaders :
        /\ pc[p] = "returned" /\ ~clear_existing[p] /\ result[p] # <<>>
        /\ \E n \in snap[p].nodes : n.dataset = dataset_name[p]
        /\ snap[p].rels # {}
        /\ Cardinality(nodes) > Cardinality(snap[p].nodes)
        /\ clears[p] = 0

\* C15: in a relationship-list load the counters count the records whose
\* statement ran: relationships_created is their number, nodes_created
\* twice their number, whatever nodes the statements found or created; a
\* skipped record and a record whose statement raised count nothing. The
\* stats returned are those counters with format "relationship_list".
C15_RelationshipListCounters ==
    \A p \in Loaders :
        (file[p].shape = "list" /\ file[p].exists /\ file[p].valid)
        => /\ relationships_created[p] = Outcomes(p, "rel", "ok")
           /\ nodes_created[p] = 2 * Outcomes(p, "rel", "ok")
           /\ relationships_created[p] <= Len(file[p].items)
           /\ result[p] # <<>>
              => /\ Len(log[p]) = Len(file[p].items)
                 /\ result[p][1] = Stats(2 * relationships_created[p],
                                         relationships_created[p], "relationship_list")

\* a relationship-list load has returned 4 nodes for 2 records although
\* the two records share an endpoint
C15_Witness ==
    \E p \in Loaders :
        /\ pc[p] = "returned" /\ file[p] = FRel2
        /\ result[p] = <<Stats(4, 2, "relationship_list")>>
        /\ Cardinality(nodes) < 4

\* the endpoints of a record whose name is nm, in the order the statement
\* handles them
EndpointsNamed(item, nm) ==
    SelectSeq(<<item.start_node, item.end_node>>, LAMBDA ep : ep.properties.name = nm)

\* C16: when a relationship-list record creates an endpoint node, the type
\* stored on it is the endpoint's schema_type if present, else its label,
\* else "Entity"; when the record matches a node stored before, the node
\* keeps its type (it is not resolved again from this record) and takes the
\* record's raw properties.
C16_EndpointTypeResolvedOnCreate ==
    [][\A p \in Loaders :
          (InRelLoop(p) /\ Handled(p) /\ log'[p][Len(log'[p])].out = "ok")
          => \A n \in nodes' :
                LET eps == EndpointsNamed(Item(p), n.name)
                IN  /\ n.nid \notin Nids(nodes)
                       => /\ eps # <<>>
                          /\ n.type = NodeType(eps[1])
                    /\ (n.nid \in Nids(nodes) /\ eps # <<>>)
                       => LET old == CHOOSE m \in nodes : m.nid = n.nid
                          IN  old.dataset = dataset_name[p]
                              => /\ n.type = old.type
                                 /\ n.schema_type =
                                        Get(eps[Len(eps)].properties.schema_type,
                                            old.schema_type)]_vars

\* the handled record i of the load wrote (or matched) the stored node n
WrittenBy(p, i, n) ==
    /\ log[p][i].out = "ok"
    /\ IF log[p][i].phase = "rel"
       THEN n.name \in {file[p].items[log[p][i].i].start_node.properties.name,
                        file[p].items[log[p][i].i].end_node.properties.name}
       ELSE log[p][i].phase = "nodes" /\ n.id = file[p].nodes[log[p][i].i].id

\* C17: the clear of a load is in the store as soon as clear_graph has
\* returned and is never undone: until the first record is handled the
\* dataset is empty (the other datasets are as they were), and at every
\* later point of the load, whether it goes on, fails or stops there, the
\* dataset holds only what the records handled so far wrote.
C17_ClearCommittedAlone ==
    \A p \in Loaders :
        (clear_existing[p] /\ clears[p] = 1 /\ error[p] # "ClearFailed")
        => /\ \A n \in nodes :
                 n.dataset = dataset_name[p] => \E i \in 1..Len(log[p]) : WrittenBy(p, i, n)
           /\ log[p] = <<>>
              => /\ nodes = {n \in snap[p].nodes : n.dataset # dataset_name[p]}
                 /\ rels = {r \in snap[p].rels :
                               \A n \in snap[p].nodes :
                                   n.nid \in {r.src, r.dst} => n.dataset # dataset_name[p]}

\* a load has cleared a dataset that held nodes and relationships and has
\* handled no record yet: the store holds nothing of the dataset
C17_Witness ==
    \E p \in Loaders :
        /\ pc[p] = "dispatch" /\ clears[p] = 1 /\ file[p].shape = "list"
        /\ \E n \in snap[p].nodes : n.dataset = dataset_name[p]
        /\ \E r \in snap[p].rels : r.dataset = dataset_name[p]
        /\ ~\E n \in nodes : n.dataset = dataset_name[p]
        /\ ~\E r \in rels : r.dataset = dataset_name[p]

\* ------------------------------------------------- a store with a history
\* The stored graph three earlier loads left, none clearing: the standard
\* file FStd4 into dataset A, FStd4 into dataset B, then the
\* relationship list FRel3 into dataset B.
Seeded ==
    LoadAlone(FRel3, "B", FALSE,
              LoadAlone(FStd4, "B", FALSE,
                        LoadAlone(FStd4, "A", FALSE, Graph({}, {}))))

InitSeeded ==
    /\ nodes = Seeded.nodes
    /\ rels = Seeded.rels
    /\ faults = 0
    /\ quota = [p \in Loaders |-> IF p = 1 THEN MaxLoads ELSE 0]
    /\ pc = [p \in Loaders |-> "idle"]
    /\ driver = [p \in Loaders |-> "none"]
    /\ file = [p \in Loaders |-> FMissing]
    /\ dataset_name = [p \in Loaders |-> "A"]
    /\ clear_existing = [p \in Loaders |-> TRUE]
    /\ idx = [p \in Loaders |-> 0]
    /\ nodes_created = [p \in Loaders |-> 0]
    /\ relationships_created = [p \in Loaders |-> 0]
    /\ result = [p \in Loaders |-> <<>>]
    /\ error = [p \in Loaders |-> ""]
    /\ clears = [p \in Loaders |-> 0]
    /\ log = [p \in Loaders |-> <<>>]
    /\ snap = [p \in Loaders |-> Graph({}, {})]
    /\ last = [p \in Loaders |-> <<>>]
    /\ connected = [p \in Loaders |-> FALSE]

SpecSeeded == InitSeeded /\ [][Next]_vars

\* the last record of the list s that satisfies Same
LastRec(s, Same(_)) ==
    s[CHOOSE i \in 1..Len(s) : Same(s[i]) /\ \A j \in (i + 1)..Len(s) : ~Same(s[j])]

\* A standard file loaded into the dataset for the second time running,
\* additively, with no statement raising in either load.
SecondStandardLoad(p) ==
    /\ pc[p] = "finally" /\ CleanLoad(p)
    /\ file[p].shape = "dict" /\ file[p].hasNodes /\ ~clear_existing[p]
    /\ last[p] # <<>>
    /\ last[p][1].file = file[p] /\ last[p][1].dataset = dataset_name[p]

\* The second load left the store and the stats as the first left them.
SameAsFirstLoad(p) ==
    /\ Graph(nodes, rels) = last[p][1].after
    /\ result[p] = last[p][1].result

\* The dataset holds one node per id of the file, with the values of the
\* last record of that id.
OneNodePerId(p) ==
    \A i \in 1..Len(file[p].nodes) :
        ~SkipNode(file[p].nodes[i])
        => LET id == file[p].nodes[i].id
               rec == LastRec(file[p].nodes, LAMBDA r : r.id = id)
               M == {n \in nodes : n.id = id /\ n.dataset = dataset_name[p]}
           IN  /\ Cardinality(M) = 1
               /\ \A n \in M : /\ n.name = Get(rec.name, id)
                               /\ n.type = Get(rec.type, "Entity")
                               /\ n.attributes = Get(rec.attributes, "[]")

\* The dataset holds one relationship per (source, target, relation) of
\* the file whose endpoints the file wrote, with the last record's weight.
OneRelPerTriple(p) ==
    \A i \in 1..Len(file[p].edges) :
        LET e == file[p].edges[i]
            wrote(id) == \E k \in 1..Len(file[p].nodes) : file[p].nodes[k].id = id
        IN  (~SkipEdge(e) /\ wrote(e.source) /\ wrote(e.target))
            => LET rec == LastRec(file[p].edges,
                                  LAMBDA r : /\ r.source = e.source /\ r.target = e.target
                                             /\ Get(r.relation, "RELATED_TO")
                                                = Get(e.relation, "RELATED_TO"))
                   R == {r \in rels :
                            /\ r.src \in MatchById(nodes, e.source, dataset_name[p])
                            /\ r.dst \in MatchById(nodes, e.target, dataset_name[p])
                            /\ r.type = Get(e.relation, "RELATED_TO")
                            /\ r.dataset = dataset_name[p]}
               IN  /\ Cardinality(R) = 1
                   /\ \A r \in R : r.weight = Get(rec.weight, "1.0")

\* C18: loading a standard file a second time into the same dataset with
\* clear_existing = false leaves the stored graph and the returned stats as
\* the first load left them, and the dataset holds one node per non-empty id
\* of the file with the last record's name, type and attributes, and one
\* relationship per (source, target, relation) with the last record's
\* weight.
C18_StandardLoadIdempotent ==
    \A p \in Loaders :
        SecondStandardLoad(p)
        => SameAsFirstLoad(p) /\ OneNodePerId(p) /\ OneRelPerTriple(p)

\* the second load left the store as the first left it
C18_Idempotent ==
    \A p \in Loaders : SecondStandardLoad(p) => SameAsFirstLoad(p)

\* a second load of the file with the repeated id has ended
C18_SecondLoadEnded ==
    \E p \in Loaders : SecondStandardLoad(p) /\ file[p] = FStd4 /\ dataset_name[p] = "A"

====
